---- MODULE Spec2Model ----
(***************************************************************************)
(* Model of ete_dev/tools/ete_ncbiquery.py: main(argv).                    *)
(*                                                                         *)
(* One run of the script is one behaviour.  The command line (args) and    *)
(* the files it names (disk) are fixed in the initial state; every action  *)
(* is one block of main(), in program order (pc).                          *)
(*                                                                         *)
(* Encoding of Python values                                               *)
(*   str       a sequence of tokens (a token is a TLA+ string that stands  *)
(*             for one character or for one indivisible piece of text);    *)
(*   None      <<>> for an option, Some(v) == <<v>> for a given option;    *)
(*   int/str   elements of all_taxids carry their Python type, because     *)
(*             9606 and "9606" are different members of a Python set;      *)
(*   dict      a function with a finite domain;                            *)
(*   float     --fuzzy similarities are counted in hundredths.             *)
(* A file-name option, when given, holds a file name (a non-empty string). *)
(***************************************************************************)
EXTENDS Integers, Sequences, FiniteSets, TLC

\* Longest -i list, -n list, input file (in lines) and reference tree (in
\* leaves) that the initial states enumerate.
MaxLen == 2

VARIABLES
    args,             \* the parsed command line (argparse Namespace)
    disk,             \* contents of the input files named on the command line
    pc,               \* position in main()
    ncbi,             \* TRUE once NCBITaxa(args.dbfile) has been constructed
    all_names,        \* set of input names
    all_taxids,       \* list, later set, of input taxids
    not_found,        \* names exact translation did not resolve
    name2id, name2realname, name2score,
    todo,             \* names the fuzzy loop has still to visit
    store_calls,      \* calls made to the taxonomy store, in order
    stdout, stderr,   \* lines printed
    files,            \* files written, in order
    reftree,          \* the reference tree (its leaves), or None
    merge_conversion, \* second result of ncbi._translate_merged
    t,                \* the topology returned by ncbi.get_topology
    species_nodes     \* species nodes the collapse loop has still to visit

vars == <<args, disk, pc, ncbi, all_names, all_taxids, not_found, name2id,
          name2realname, name2score, todo, store_calls, stdout, stderr, files,
          reftree, merge_conversion, t, species_nodes>>

----------------------------------------------------------------------------
(* Python values and builtins                                              *)

None == <<>>
Some(v) == <<v>>

PyInt(k) == [ty |-> "int", i |-> k, s |-> <<>>]
PyStr(cs) == [ty |-> "str", i |-> 0, s |-> cs]

\* str(k) and int(s) on decimal numerals; a numeral is one token.
IntToStr(k) == <<ToString(k)>>
StrToInt(cs) == CHOOSE k \in 0..9 : IntToStr(k) = cs

\* str(v), int(v) on a typed value.
str(v) == IF v.ty = "int" THEN PyStr(IntToStr(v.i)) ELSE v
int(v) == IF v.ty = "str" THEN PyInt(StrToInt(v.s)) ELSE v

\* Truth value of an option: None, an empty list, "" and 0.0 are all false.
TruthyList(o) == o # None /\ Len(o[1]) > 0
TruthyStr(o) == o # None /\ o[1] # <<>>
TruthyFloat(o) == o # None /\ o[1] # 0

EmptyDict == [x \in {} |-> {}]
Put(d, k, v) == [x \in (DOMAIN d) \cup {k} |-> IF x = k THEN v ELSE d[x]]
Get(d, k, default) == IF k \in DOMAIN d THEN d[k] ELSE default

Range(q) == {q[i] : i \in 1..Len(q)}
Map(F(_), q) == [i \in 1..Len(q) |-> F(q[i])]

\* Some order of iteration over a set: the order is not fixed by Python and
\* nothing below is read from it but membership and multiplicity.
RECURSIVE SetToSeq(_)
SetToSeq(S) ==
    IF S = {} THEN <<>>
    ELSE LET x == CHOOSE y \in S : TRUE IN <<x>> \o SetToSeq(S \ {x})

RECURSIVE lstrip(_)
lstrip(cs) == IF cs # <<>> /\ Head(cs) = " " THEN lstrip(Tail(cs)) ELSE cs

RECURSIVE rstrip(_)
rstrip(cs) ==
    IF cs # <<>> /\ cs[Len(cs)] = " "
    THEN rstrip(SubSeq(cs, 1, Len(cs) - 1)) ELSE cs

\* string.strip
strip(cs) == rstrip(lstrip(cs))

\* sep.join(words)
RECURSIVE join(_, _)
join(sep, words) ==
    IF words = <<>> THEN <<>>
    ELSE IF Len(words) = 1 THEN words[1]
    ELSE words[1] \o <<sep>> \o join(sep, Tail(words))

\* cs.split(sep)
RECURSIVE split(_, _)
split(cs, sep) ==
    IF \A i \in 1..Len(cs) : cs[i] # sep THEN <<cs>>
    ELSE LET i == CHOOSE j \in 1..Len(cs) :
                     cs[j] = sep /\ \A k \in 1..(j - 1) : cs[k] # sep
         IN <<SubSeq(cs, 1, i - 1)>> \o split(SubSeq(cs, i + 1, Len(cs)), sep)

Upper(c) == CASE c = "a" -> "A" [] c = "b" -> "B" [] c = "v" -> "V" [] OTHER -> c
Lower(c) == CASE c = "A" -> "a" [] c = "B" -> "b" [] c = "V" -> "v" [] OTHER -> c

\* str.capitalize
capitalize(cs) ==
    [i \in 1..Len(cs) |-> IF i = 1 THEN Upper(cs[i]) ELSE Lower(cs[i])]

----------------------------------------------------------------------------
(* The taxonomy store (NCBITaxa) and the tree library: a small local       *)
(* taxonomy database and the calls main() makes on it.                     *)

\* taxid -> parent taxid (0 above the root)
TaxUp == <<0, 1, 2, 3, 1>>
TaxRank == <<"genus", "species", "subspecies", "no rank", "species">>
TaxSci == << <<"G">>, <<"S">>, <<"U">>, <<"V">>, <<"W">> >>
TaxIds == DOMAIN TaxUp

\* the merged table: old taxid -> current taxid
Merged == (8 :> 3)

\* exact names known to the store
NameDB == (<<"a">> :> 2) @@ (<<"a", " ", "b">> :> 5)

\* ncbi.get_name_translator(names): {name: taxid} for the names found
get_name_translator(names) ==
    [n \in names \cap DOMAIN NameDB |-> PyInt(NameDB[n])]

NoMatch == [tax |-> None, realname |-> None, sim |-> 0]

\* ncbi.get_fuzzy_name_translation(name, sim): what the store may answer,
\* (taxid, real name, similarity) with a similarity of at least sim, or
\* (None, None, 0) when nothing is similar enough.
get_fuzzy_name_translation(name, minsim) ==
    {NoMatch} \cup
    {[tax |-> Some(PyInt(4)), realname |-> Some(<<"v">>), sim |-> s] :
        s \in {x \in {95} : x >= minsim}}

\* ncbi.get_sp_lineage(taxid): root ... taxid; empty for an unknown taxid
RECURSIVE get_sp_lineage(_)
get_sp_lineage(k) ==
    IF k \notin TaxIds THEN <<>>
    ELSE IF TaxUp[k] = 0 THEN <<k>>
    ELSE get_sp_lineage(TaxUp[k]) \o <<k>>

\* ncbi.get_taxid_translator(taxids): {int taxid: scientific name} for the
\* taxids the database knows
get_taxid_translator(taxids) ==
    [k \in {int(v).i : v \in {w \in taxids : w # PyStr(<<>>)}} \cap TaxIds
        |-> TaxSci[k]]

\* ncbi.translate_to_names(lineage)
translate_to_names(lineage) == Map(LAMBDA k : TaxSci[k], lineage)

\* ncbi._translate_merged(taxids): (set of current int taxids, {old: new})
translate_merged(taxids) ==
    LET ints == {int(v).i : v \in taxids}
        old == ints \cap DOMAIN Merged
    IN [ids |-> {PyInt(k) : k \in (ints \ old) \cup {Merged[k] : k \in old}},
        conversion |-> [k \in old |-> Merged[k]]]

----------------------------------------------------------------------------
(* main(): argument validation                                             *)

\* taxid_source = args.taxid or args.taxid_file or args.reftree
taxid_source(a) ==
    TruthyList(a.taxid) \/ TruthyStr(a.taxid_file) \/ TruthyStr(a.reftree)

\* variant: --fuzzy counted among the name sources
name_source_with_fuzzy(a) ==
    TruthyList(a.names) \/ TruthyStr(a.names_file) \/ TruthyFloat(a.fuzzy)

\* name_source = args.names or args.names_file
name_source(a) == TruthyList(a.names) \/ TruthyStr(a.names_file)

\* if not taxid_source and not name_source: parser.error(...)
no_input_source(a) == ~taxid_source(a) /\ ~name_source(a)

\* variant: args.names_file left out of the test
conflicting_sources_names_only(a) == taxid_source(a) /\ TruthyList(a.names)

\* if taxid_source and name_source: parser.error(...)
conflicting_sources(a) == taxid_source(a) /\ name_source(a)

\* variant: --collapse_subspecies counted among the output options
no_output_option_or_flag(a) ==
    /\ ~TruthyStr(a.taxonomy)
    /\ ~TruthyStr(a.info_list)
    /\ ~TruthyStr(a.annotated_tree)
    /\ ~a.collapse_subspecies

\* if not args.taxonomy and not args.info_list and not args.annotated_tree
no_output_option(a) ==
    /\ ~TruthyStr(a.taxonomy)
    /\ ~TruthyStr(a.info_list)
    /\ ~TruthyStr(a.annotated_tree)

\* args = parser.parse_args(argv) ... parser.error(...)
Validate ==
    /\ pc = "parse_args"
    /\ pc' = IF \/ no_input_source(args)
                \/ conflicting_sources(args)
                \/ no_output_option(args)
             THEN "usage_error" ELSE "open_db"
    /\ UNCHANGED <<args, disk, ncbi, all_names, all_taxids, not_found,
                   name2id, name2realname, name2score, todo, store_calls,
                   stdout, stderr, files, reftree, merge_conversion, t,
                   species_nodes>>

\* ncbi = NCBITaxa(args.dbfile)
OpenDB ==
    /\ pc = "open_db"
    /\ ncbi' = TRUE
    /\ pc' = "read_names"
    /\ UNCHANGED <<args, disk, all_names, all_taxids, not_found, name2id,
                   name2realname, name2score, todo, store_calls, stdout,
                   stderr, files, reftree, merge_conversion, t, species_nodes>>

----------------------------------------------------------------------------
(* main(): name input                                                      *)

\* map(strip, open(args.names_file, "rU").read().split("\n"))
names_from_file(content) == Range(Map(strip, split(content, "\n")))

\* map(strip, " ".join(args.names).split(","))
names_from_args(words) == Range(Map(strip, split(join(" ", words), ",")))

\* all_names = set([]) ... all_names.discard("")
ReadNames ==
    /\ pc = "read_names"
    /\ all_names' =
         ((IF TruthyStr(args.names_file)
             THEN names_from_file(disk.names_file) ELSE {})
          \cup
          (IF TruthyList(args.names)
             THEN names_from_args(args.names[1]) ELSE {})) \ {<<>>}
    /\ pc' = IF all_names' # {} THEN "translate" ELSE "read_taxids"
    /\ UNCHANGED <<args, disk, ncbi, all_taxids, not_found, name2id,
                   name2realname, name2score, todo, store_calls, stdout,
                   stderr, files, reftree, merge_conversion, t, species_nodes>>

\* if args.fuzzy and not_found:
fuzzy_wanted(a, nf) == TruthyFloat(a.fuzzy) /\ nf # {}

\* name2id = ncbi.get_name_translator(all_names)
\* not_found = all_names - set(name2id.keys())
TranslateNames ==
    /\ pc = "translate"
    /\ name2id' = get_name_translator(all_names)
    /\ not_found' = all_names \ DOMAIN name2id'
    /\ todo' = IF fuzzy_wanted(args, not_found') THEN not_found' ELSE {}
    /\ store_calls' = Append(store_calls,
                             [op |-> "get_name_translator", arg |-> all_names])
    /\ pc' = "fuzzy"
    /\ UNCHANGED <<args, disk, ncbi, all_names, all_taxids, name2realname,
                   name2score, stdout, stderr, files, reftree,
                   merge_conversion, t, species_nodes>>

\* for name in not_found:
\*     tax, realname, sim = ncbi.get_fuzzy_name_translation(name, args.fuzzy)
\*     if tax: ...
FuzzyStep ==
    /\ pc = "fuzzy"
    /\ \E name \in todo :
       \E r \in get_fuzzy_name_translation(name, args.fuzzy[1]) :
          /\ todo' = todo \ {name}
          /\ store_calls' =
               Append(store_calls,
                      [op |-> "get_fuzzy_name_translation", arg |-> name])
          /\ IF r.tax # None
               THEN /\ name2id' = Put(name2id, name, r.tax[1])
                    /\ name2realname' = Put(name2realname, name, r.realname[1])
                    /\ name2score' =
                         Put(name2score, name, <<"Fuzzy:", ToString(r.sim)>>)
               ELSE UNCHANGED <<name2id, name2realname, name2score>>
    /\ UNCHANGED <<args, disk, pc, ncbi, all_names, all_taxids, not_found,
                   stdout, stderr, files, reftree, merge_conversion, t,
                   species_nodes>>

\* the line printed for one name:
\* print "\t".join(map(str, [score, name, realname.capitalize(), taxid]))
table_line(name) ==
    LET taxid == IF name \in DOMAIN name2id
                   THEN str(name2id[name]).s ELSE <<"???">>
        realname == Get(name2realname, name, name)
        score == Get(name2score, name, <<"Exact:1.0">>)
    IN [kind |-> "translation",
        cols |-> <<score, name, capitalize(realname), taxid>>]

\* for name in all_names: print ...
PrintTable ==
    /\ pc = "fuzzy"
    /\ todo = {}
    /\ stdout' = stdout \o Map(table_line, SetToSeq(all_names))
    /\ pc' = "read_taxids"
    /\ UNCHANGED <<args, disk, ncbi, all_names, all_taxids, not_found,
                   name2id, name2realname, name2score, todo, store_calls,
                   stderr, files, reftree, merge_conversion, t, species_nodes>>

----------------------------------------------------------------------------
(* main(): taxid input and the taxid information list                      *)

\* truth value of all_taxids, a list first and a set later
Truthy(ids) == IF ids.is_set THEN ids.items # {} ELSE ids.items # <<>>

\* set(all_taxids)
set(ids) == IF ids.is_set THEN ids.items ELSE Range(ids.items)

\* map(strip, open(args.taxid_file, "rU").read().split("\n"))
taxids_from_file(content) ==
    Map(LAMBDA line : PyStr(strip(line)), split(content, "\n"))

\* list(set([getattr(n, args.reftree_attr) for n in reftree.iter_leaves()]))
taxids_from_reftree(leaves) ==
    SetToSeq({PyStr(leaves[i].name) : i \in 1..Len(leaves)})

\* reftree = PhyloTree(args.reftree): the leaves, in order, without features
PhyloTree(leaf_names) ==
    [i \in 1..Len(leaf_names) |-> [name |-> leaf_names[i], features |-> EmptyDict]]

\* if args.taxid_file: ...  if args.taxid: ...  if args.reftree: ...
ReadTaxids ==
    /\ pc = "read_taxids"
    /\ reftree' = IF TruthyStr(args.reftree)
                    THEN Some(PhyloTree(disk.reftree)) ELSE None
    /\ all_taxids' =
         [is_set |-> FALSE,
          items |->
             (IF TruthyStr(args.taxid_file)
                THEN taxids_from_file(disk.taxid_file) ELSE <<>>)
             \o (IF TruthyList(args.taxid) THEN args.taxid[1] ELSE <<>>)
             \o (IF reftree' # None
                   THEN taxids_from_reftree(reftree'[1]) ELSE <<>>)]
    /\ pc' = "info_list"
    /\ UNCHANGED <<args, disk, ncbi, all_names, not_found, name2id,
                   name2realname, name2score, todo, store_calls, stdout,
                   stderr, files, merge_conversion, t, species_nodes>>

\* one row of <list>.info.txt:
\* [merge_conversion.get(int(taxid), taxid), name, named_lineage, lineage]
info_row(k, translator, conversion) ==
    LET lineage == get_sp_lineage(k)
    IN <<IntToStr(Get(conversion, k, k)),
         translator[k],
         join(",", translate_to_names(lineage)),
         join(",", Map(IntToStr, lineage))>>

\* variant: the keys of the translator compared as int
not_found_taxids_keys_not_str(ids, translator) ==
    {str(v) : v \in ids} \ {PyInt(k) : k \in DOMAIN translator}

\* set(map(str, all_taxids)) - set(str(k) for k in translator.iterkeys())
not_found_taxids(ids, translator) ==
    {str(v) : v \in ids} \ {str(PyInt(k)) : k \in DOMAIN translator}

\* if all_taxids and args.info_list: ...
InfoList ==
    /\ pc = "info_list"
    /\ IF Truthy(all_taxids) /\ TruthyStr(args.info_list)
         THEN LET given == set(all_taxids) \ {PyStr(<<>>)}
                  tm == translate_merged(given)
                  translator == get_taxid_translator(tm.ids)
                  outfile == args.info_list[1] \o <<".info.txt">>
              IN /\ all_taxids' = [is_set |-> TRUE, items |-> tm.ids]
                 /\ merge_conversion' = tm.conversion
                 /\ files' =
                      Append(files,
                             [outfile |-> outfile,
                              kind |-> "info",
                              content |->
                                 Map(LAMBDA k : info_row(k, translator, tm.conversion),
                                     SetToSeq(DOMAIN translator))])
                 /\ stderr' =
                      stderr \o
                      Map(LAMBDA nf : [taxid |-> nf.s, msg |-> "NOT FOUND"],
                          SetToSeq(not_found_taxids(tm.ids, translator)))
                 /\ store_calls' =
                      store_calls \o
                      <<[op |-> "_translate_merged", arg |-> given],
                        [op |-> "get_taxid_translator", arg |-> tm.ids]>>
         ELSE UNCHANGED <<all_taxids, merge_conversion, files, stderr,
                          store_calls>>
    /\ pc' = "taxonomy"
    /\ UNCHANGED <<args, disk, ncbi, all_names, not_found, name2id,
                   name2realname, name2score, todo, stdout, reftree, t,
                   species_nodes>>

----------------------------------------------------------------------------
(* main(): the pruned taxonomy tree                                        *)

\* A tree is its set of nodes, the parent of each (0 for the root) and the
\* attributes of each.
NoTree ==
    [nodes |-> {}, up |-> EmptyDict, name |-> EmptyDict, taxid |-> EmptyDict,
     sci_name |-> EmptyDict, rank |-> EmptyDict, named_lineage |-> EmptyDict,
     collapse_subspecies |-> EmptyDict]

\* ncbi.get_topology(taxids, args.full_lineage, args.rank_limit): the tree
\* made of the lineages of the taxids the database knows; every node is named
\* by its taxid and has a rank
get_topology(taxids) ==
    LET known == {int(v).i : v \in taxids} \cap TaxIds
        nodes == UNION {Range(get_sp_lineage(k)) : k \in known}
    IN [NoTree EXCEPT
          !.nodes = nodes,
          !.up = [n \in nodes |-> TaxUp[n]],
          !.name = [n \in nodes |-> IntToStr(n)],
          !.rank = [n \in nodes |-> TaxRank[n]]]

children(tree, n) == {c \in tree.nodes : tree.up[c] = n}

\* n.get_descendants()
RECURSIVE get_descendants(_, _)
get_descendants(tree, n) ==
    children(tree, n) \cup
    UNION {get_descendants(tree, c) : c \in children(tree, n)}

\* t.iter_leaves()
iter_leaves(tree) == {n \in tree.nodes : children(tree, n) = {}}

\* for n in t.traverse():
\*     n.add_features(taxid=n.name)
\*     n.add_features(sci_name=str(id2name.get(int(n.name), "?")))
\*     n.name = "%s{%s}" %(id2name.get(int(n.name), n.name), n.name)
\*     n.add_features(named_lineage = '|'.join(ncbi.translate_to_names(lineage)))
annotate_topology(tree, id2name) ==
    [tree EXCEPT
       !.taxid = [n \in tree.nodes |-> tree.name[n]],
       !.sci_name =
          [n \in tree.nodes |-> Get(id2name, StrToInt(tree.name[n]), <<"?">>)],
       !.name =
          [n \in tree.nodes |->
             Get(id2name, StrToInt(tree.name[n]), tree.name[n])
             \o <<"{">> \o tree.name[n] \o <<"}">>],
       !.named_lineage =
          [n \in tree.nodes |->
             join("|", translate_to_names(get_sp_lineage(StrToInt(tree.name[n]))))]]

\* t.write(format=..., features=..., outfile=...): format 9 writes the names
\* of the leaves only, format 8 the names of all nodes; the listed features
\* a node has are written with it
write(tree, format, features, outfile) ==
    [outfile |-> outfile,
     kind |-> "tree",
     content |->
        [up |-> tree.up,
         names |-> [n \in (IF format = 9 THEN iter_leaves(tree) ELSE tree.nodes)
                      |-> tree.name[n]],
         features |->
            [f \in features |-> IF f = "name" THEN tree.name ELSE tree[f]]]]

\* if all_taxids and args.taxonomy:
\*     t = ncbi.get_topology(all_taxids, args.full_lineage, args.rank_limit)
\*     id2name = ncbi.get_taxid_translator([n.name for n in t.traverse()])
\*     for n in t.traverse(): ...
GetTopology ==
    /\ pc = "taxonomy"
    /\ IF Truthy(all_taxids) /\ TruthyStr(args.taxonomy)
         THEN LET targets == set(all_taxids) \ {PyStr(<<>>)}
                  tree == get_topology(targets)
                  id2name ==
                     get_taxid_translator({PyStr(tree.name[n]) : n \in tree.nodes})
              IN /\ all_taxids' = [is_set |-> TRUE, items |-> targets]
                 /\ t' = annotate_topology(tree, id2name)
                 /\ store_calls' =
                      Append(store_calls,
                             [op |-> "get_topology", arg |-> targets])
                 /\ pc' = "select_species"
         ELSE /\ UNCHANGED <<all_taxids, t, store_calls>>
              /\ pc' = "reftree"
    /\ UNCHANGED <<args, disk, ncbi, all_names, not_found, name2id,
                   name2realname, name2score, todo, stdout, stderr, files,
                   reftree, merge_conversion, species_nodes>>

\* [n for n in t.traverse() if n.rank == "species"
\*                          if int(n.taxid) in all_taxids]
target_species(tree, ids) ==
    {n \in tree.nodes :
        tree.rank[n] = "species" /\ int(PyStr(tree.taxid[n])) \in ids}

\* if args.collapse_subspecies: species_nodes = [...]
SelectSpecies ==
    /\ pc = "select_species"
    /\ species_nodes' = IF args.collapse_subspecies
                          THEN target_species(t, all_taxids.items) ELSE {}
    /\ pc' = "collapse"
    /\ UNCHANGED <<args, disk, ncbi, all_names, all_taxids, not_found,
                   name2id, name2realname, name2score, todo, store_calls,
                   stdout, stderr, files, reftree, merge_conversion, t>>

\* the node created by sp_node.__class__() for species node sp
connector_of(sp) == sp + 10

\* bellow = sp_node.get_descendants()
\* if bellow:
\*     connector = copy of sp_node's features, name + "{species}"
\*     for n in bellow: n.detach(); n.name += "{%s}" % n.rank; sp_node.add_child(n)
\*     sp_node.add_child(connector)
\*     sp_node.add_feature("collapse_subspecies", "1")
collapse(tree, sp) ==
    LET bellow == get_descendants(tree, sp)
        c == connector_of(sp)
        moved == bellow \cup {c}
    IN IF bellow = {} THEN tree
       ELSE [nodes |-> tree.nodes \cup {c},
             up |-> [n \in tree.nodes \cup {c} |->
                       IF n \in moved THEN sp ELSE tree.up[n]],
             name |-> [n \in tree.nodes \cup {c} |->
                         IF n = c THEN tree.name[sp] \o <<"{", "species", "}">>
                         ELSE IF n \in bellow
                                THEN tree.name[n] \o <<"{", tree.rank[n], "}">>
                                ELSE tree.name[n]],
             taxid |-> [n \in tree.nodes \cup {c} |->
                          tree.taxid[IF n = c THEN sp ELSE n]],
             sci_name |-> [n \in tree.nodes \cup {c} |->
                             tree.sci_name[IF n = c THEN sp ELSE n]],
             rank |-> [n \in tree.nodes \cup {c} |->
                         tree.rank[IF n = c THEN sp ELSE n]],
             named_lineage |-> [n \in tree.nodes \cup {c} |->
                                  tree.named_lineage[IF n = c THEN sp ELSE n]],
             collapse_subspecies |-> Put(tree.collapse_subspecies, sp, "1")]

\* for sp_node in species_nodes: ...
\* (the species nodes are visited in any order: no species node of the
\* database lies below another, so the visits do not interfere)
CollapseStep ==
    /\ pc = "collapse"
    /\ \E sp \in species_nodes :
          /\ t' = collapse(t, sp)
          /\ species_nodes' = species_nodes \ {sp}
    /\ UNCHANGED <<args, disk, pc, ncbi, all_names, all_taxids, not_found,
                   name2id, name2realname, name2score, todo, store_calls,
                   stdout, stderr, files, reftree, merge_conversion>>

AnnotationFeatures ==
    {"taxid", "name", "rank", "sci_name", "collapse_subspecies", "named_lineage"}

\* t.write(format=9, outfile=args.taxonomy+".names.nw")
\* t.write(format=8, outfile=args.taxonomy+".allnames.nw")
\* t.write(format=9, features=[...], outfile=args.taxonomy+".full_annotation.nw")
WriteNameFiles ==
    /\ pc = "collapse"
    /\ species_nodes = {}
    /\ files' = files \o
         <<write(t, 9, {}, args.taxonomy[1] \o <<".names.nw">>),
           write(t, 8, {}, args.taxonomy[1] \o <<".allnames.nw">>),
           write(t, 9, AnnotationFeatures,
                 args.taxonomy[1] \o <<".full_annotation.nw">>)>>
    /\ pc' = "rename_leaves"
    /\ UNCHANGED <<args, disk, ncbi, all_names, all_taxids, not_found,
                   name2id, name2realname, name2score, todo, store_calls,
                   stdout, stderr, reftree, merge_conversion, t,
                   species_nodes>>

\* for i in t.iter_leaves(): i.name = i.taxid
rename_leaves(tree) ==
    [tree EXCEPT !.name = [n \in tree.nodes |->
                             IF n \in iter_leaves(tree)
                               THEN tree.taxid[n] ELSE tree.name[n]]]

RenameLeaves ==
    /\ pc = "rename_leaves"
    /\ t' = rename_leaves(t)
    /\ pc' = "write_taxids"
    /\ UNCHANGED <<args, disk, ncbi, all_names, all_taxids, not_found,
                   name2id, name2realname, name2score, todo, store_calls,
                   stdout, stderr, files, reftree, merge_conversion,
                   species_nodes>>

\* t.write(format=9, outfile=args.taxonomy+".taxids.nw")
\* t.write(format=8, outfile=args.taxonomy+".alltaxids.nw")
WriteTaxidFiles ==
    /\ pc = "write_taxids"
    /\ files' = files \o
         <<write(t, 9, {}, args.taxonomy[1] \o <<".taxids.nw">>),
           write(t, 8, {}, args.taxonomy[1] \o <<".alltaxids.nw">>)>>
    /\ pc' = "reftree"
    /\ UNCHANGED <<args, disk, ncbi, all_names, all_taxids, not_found,
                   name2id, name2realname, name2score, todo, store_calls,
                   stdout, stderr, reftree, merge_conversion, t,
                   species_nodes>>

----------------------------------------------------------------------------
(* main(): the annotated reference tree                                    *)

\* for n in reftree.iter_leaves():
\*     if not hasattr(n, "taxid"): n.add_features(taxid=int(getattr(n, attr)))
\*     n.add_features(sci_name = translator.get(int(n.taxid), n.name))
\*     n.add_features(ncbi_track='|'.join(ncbi._translate_to_names(lineage)))
annotate_leaf(leaf, translator) ==
    LET taxid == StrToInt(leaf.name)
    IN [leaf EXCEPT
          !.features =
             ("taxid" :> PyInt(taxid))
             @@ ("sci_name" :> Get(translator, taxid, leaf.name))
             @@ ("ncbi_track" :>
                   join("|", translate_to_names(get_sp_lineage(taxid))))]

\* if all_taxids and reftree:
\*     translator = ncbi.get_taxid_translator(all_taxids)
\*     for n in reftree.iter_leaves(): ...
\*     print reftree.write(features=["taxid", "sci_name", "ncbi_track"])
AnnotateReftree ==
    /\ pc = "reftree"
    /\ IF Truthy(all_taxids) /\ reftree # None
         THEN LET translator == get_taxid_translator(set(all_taxids))
                  annotated == Map(LAMBDA leaf : annotate_leaf(leaf, translator),
                                   reftree[1])
              IN /\ reftree' = Some(annotated)
                 /\ stdout' = Append(stdout,
                                     [kind |-> "tree", cols |-> annotated])
                 /\ store_calls' =
                      Append(store_calls,
                             [op |-> "get_taxid_translator",
                              arg |-> set(all_taxids)])
         ELSE UNCHANGED <<reftree, stdout, store_calls>>
    /\ pc' = "done"
    /\ UNCHANGED <<args, disk, ncbi, all_names, all_taxids, not_found,
                   name2id, name2realname, name2score, todo, stderr, files,
                   merge_conversion, t, species_nodes>>

----------------------------------------------------------------------------
(* Invocations: command lines, and the files they name                     *)

\* non-empty lists of at most MaxLen elements of S
Lists(S) == UNION {[1..n -> S] : n \in 1..MaxLen}

\* a text file holding the given lines, each ended by a newline
TextFile(lines) == join("\n", lines) \o <<"\n">>

Opt(S) == {None} \cup {Some(v) : v \in S}

NoInput ==
    [taxid |-> None, taxid_file |-> None, reftree |-> None,
     names |-> None, names_file |-> None, fuzzy |-> None]

NoDisk == [taxid_file |-> <<>>, names_file |-> <<>>, reftree |-> <<>>]

Outputs ==
    [taxonomy : Opt({<<"tax">>}), info_list : Opt({<<"list">>}),
     annotated_tree : Opt({<<"annot">>}), collapse_subspecies : BOOLEAN]

\* the argparse Namespace of input options i and output options o
Namespace(i, o) ==
    [taxid |-> i.taxid, taxid_file |-> i.taxid_file, reftree |-> i.reftree,
     names |-> i.names, names_file |-> i.names_file, fuzzy |-> i.fuzzy,
     taxonomy |-> o.taxonomy, info_list |-> o.info_list,
     annotated_tree |-> o.annotated_tree,
     collapse_subspecies |-> o.collapse_subspecies]

\* every combination of options given and not given, each with one value
AnyOptions ==
    {<<Namespace(i, o),
       [taxid_file |-> TextFile(<< <<"4">> >>),
        names_file |-> TextFile(<< <<"b">> >>),
        reftree |-> << <<"3">> >>]>> :
       i \in [taxid : Opt({<<PyInt(2)>>}), taxid_file : Opt({<<"ids.txt">>}),
              reftree : Opt({<<"tree.nw">>}), names : Opt({<< <<"a">> >>}),
              names_file : Opt({<<"names.txt">>}), fuzzy : Opt({0, 90})],
       o \in Outputs}

\* taxid input: every -i list, taxid file and reference tree up to MaxLen
TaxidInputs ==
    {<<Namespace([NoInput EXCEPT
                    !.taxid = src.taxid,
                    !.taxid_file = IF src.file = None THEN None
                                   ELSE Some(<<"ids.txt">>),
                    !.reftree = IF src.tree = None THEN None
                                ELSE Some(<<"tree.nw">>)], o),
       [NoDisk EXCEPT
          !.taxid_file = IF src.file = None THEN <<>> ELSE TextFile(src.file[1]),
          !.reftree = IF src.tree = None THEN <<>> ELSE src.tree[1]]>> :
       src \in [taxid : Opt(Lists({PyInt(2), PyInt(5), PyInt(7)})),
                file : Opt(Lists({<<"2">>, <<" ", "8">>})),
                tree : Opt(Lists({<<"4">>}))],
       o \in Outputs}

\* name input: every -n list and names file up to MaxLen, with and without
\* --fuzzy
NameInputs ==
    {<<Namespace([NoInput EXCEPT
                    !.names = src.names,
                    !.names_file = IF src.file = None THEN None
                                   ELSE Some(<<"names.txt">>),
                    !.fuzzy = src.fuzzy], o),
       [NoDisk EXCEPT
          !.names_file = IF src.file = None THEN <<>> ELSE TextFile(src.file[1])]>> :
       src \in [names : Opt(Lists({<<"a">>, <<"b", ",">>})),
                file : Opt(Lists({<<"c", " ">>, <<"a">>})),
                fuzzy : Opt({0, 90})],
       o \in {x \in Outputs : ~x.collapse_subspecies}}

Invocations == AnyOptions \cup TaxidInputs \cup NameInputs

Init ==
    /\ \E inv \in Invocations : args = inv[1] /\ disk = inv[2]
    /\ pc = "parse_args"
    /\ ncbi = FALSE
    /\ all_names = {}
    /\ all_taxids = [is_set |-> FALSE, items |-> <<>>]
    /\ not_found = {}
    /\ name2id = EmptyDict
    /\ name2realname = EmptyDict
    /\ name2score = EmptyDict
    /\ todo = {}
    /\ store_calls = <<>>
    /\ stdout = <<>>
    /\ stderr = <<>>
    /\ files = <<>>
    /\ reftree = None
    /\ merge_conversion = EmptyDict
    /\ t = NoTree
    /\ species_nodes = {}

Next ==
    \/ Validate
    \/ OpenDB
    \/ ReadNames
    \/ TranslateNames
    \/ FuzzyStep
    \/ PrintTable
    \/ ReadTaxids
    \/ InfoList
    \/ GetTopology
    \/ SelectSpecies
    \/ CollapseStep
    \/ WriteNameFiles
    \/ RenameLeaves
    \/ WriteTaxidFiles
    \/ AnnotateReftree

Spec == Init /\ [][Next]_vars

----------------------------------------------------------------------------
(* Properties                                                              *)

\* what the command line supplies, read from the options alone
TaxidModes ==
    {m \in {"taxid", "taxid_file", "reftree"} : args[m] # None}
NameModes == {m \in {"names", "names_file"} : args[m] # None}
OutputOptions ==
    {m \in {"taxonomy", "info_list", "annotated_tree"} : args[m] # None}

PastValidation == pc \notin {"parse_args", "usage_error"}

\* nothing has been opened, asked of the store, printed or written
NothingDone ==
    /\ ~ncbi
    /\ store_calls = <<>>
    /\ stdout = <<>>
    /\ stderr = <<>>
    /\ files = <<>>

Rejected == pc \in {"parse_args", "usage_error"} /\ NothingDone

\* C1: an invocation with no input option, or with no output option, ends in
\* a usage error: it never gets past validation, the taxonomy database is
\* never opened and nothing is printed or written.
C1_MissingOptionsRejected ==
    (TaxidModes \cup NameModes = {} \/ OutputOptions = {}) => Rejected

C1_Witness ==
    /\ pc = "usage_error"
    /\ TaxidModes # {}
    /\ NameModes = {}
    /\ OutputOptions = {}

CallsOf(op) ==
    SelectSeq(store_calls, LAMBDA c : c.op = op)

FilesNamed(outfile) == {i \in 1..Len(files) : files[i].outfile = outfile}

\* the taxids of the target species of the run: the taxids given, or the
\* taxids the names given were translated into
TargetTaxids ==
    IF NameModes # {}
      THEN {name2id[n].i : n \in DOMAIN name2id}
      ELSE {int(v).i : v \in set(all_taxids) \ {PyStr(<<>>)}}

TaxonomyFiles ==
    {<<".names.nw">>, <<".allnames.nw">>, <<".full_annotation.nw">>,
     <<".taxids.nw">>, <<".alltaxids.nw">>}

\* C4: a finished run that passed validation, was given -x and has target
\* species, given as taxids or as names, has asked the store for the topology
\* of the targets and has written the five tree files.
C4_TaxonomyDumped ==
    (pc = "done" /\ args.taxonomy # None /\ TargetTaxids # {}) =>
        /\ \E i \in 1..Len(CallsOf("get_topology")) :
              {int(v).i : v \in CallsOf("get_topology")[i].arg} = TargetTaxids
        /\ \A suffix \in TaxonomyFiles :
              FilesNamed(args.taxonomy[1] \o suffix) # {}

\* the annotated reference tree is on standard output
AnnotatedTreePrinted == \E i \in 1..Len(stdout) : stdout[i].kind = "tree"

\* C5: with -t and -a the annotated reference tree is in the file -a names,
\* and the annotated tree is produced only when -a is given.
C5_AnnotatedTreeInFile ==
    pc = "done" =>
        /\ (args.reftree # None /\ args.annotated_tree # None) =>
              FilesNamed(args.annotated_tree[1]) # {}
        /\ AnnotatedTreePrinted => args.annotated_tree # None

FuzzyCalls(name) ==
    Len(SelectSeq(store_calls,
                  LAMBDA c : c.op = "get_fuzzy_name_translation" /\ c.arg = name))

AfterNameTranslation ==
    /\ all_names # {}
    /\ pc \notin {"parse_args", "usage_error", "open_db", "read_names",
                  "translate", "fuzzy"}

\* C6: when --fuzzy is given a similarity, once the names are translated the
\* fuzzy search has been tried once for each name exact translation did not
\* resolve, never for a name it resolved, and every exact translation stands.
C6_FuzzyForUntranslated ==
    (args.fuzzy # None /\ AfterNameTranslation) =>
        LET exact == get_name_translator(all_names)
        IN /\ \A n \in all_names \ DOMAIN exact : FuzzyCalls(n) = 1
           /\ \A n \in DOMAIN exact : FuzzyCalls(n) = 0 /\ name2id[n] = exact[n]

\* the topology the store returned for the targets
Retrieved == get_topology(all_taxids.items)

\* the target species that have descendants in the retrieved topology
SpeciesWithDescendants ==
    {n \in Retrieved.nodes :
        /\ Retrieved.rank[n] = "species"
        /\ \E v \in all_taxids.items : int(v).i = n
        /\ get_descendants(Retrieved, n) # {}}

\* C7: with --collapse_subspecies, when the collapse loop has finished, the
\* former descendants of every target species node are its children and are
\* leaves, the node has one more leaf child, the copy of itself, and is tagged
\* collapse_subspecies=1; no other node has changed its parent.
C7_SubspeciesCollapsed ==
    (pc = "rename_leaves" /\ args.collapse_subspecies) =>
        /\ \A sp \in SpeciesWithDescendants :
              LET former == get_descendants(Retrieved, sp)
              IN /\ \A d \in former : t.up[d] = sp /\ children(t, d) = {}
                 /\ \E c \in children(t, sp) \ former :
                       /\ children(t, sp) = former \cup {c}
                       /\ children(t, c) = {}
                       /\ t.taxid[c] = t.taxid[sp]
                 /\ Get(t.collapse_subspecies, sp, "") = "1"
        /\ \A n \in Retrieved.nodes :
              (\A sp \in SpeciesWithDescendants :
                  n \notin get_descendants(Retrieved, sp))
              => t.up[n] = Retrieved.up[n]

TableLines(name) ==
    {i \in 1..Len(stdout) :
        stdout[i].kind = "translation" /\ stdout[i].cols[2] = name}

\* C8: the translation table has one line for each input name; the line has
\* the taxid ??? exactly when the name was resolved neither exactly nor by
\* fuzzy search, a Fuzzy: score exactly when it was resolved by fuzzy search,
\* and the score Exact:1.0 only when exact translation resolved it.
C8_TranslationTable ==
    AfterNameTranslation =>
        LET exact == DOMAIN get_name_translator(all_names)
            fuzzy == DOMAIN name2id \ exact
        IN /\ \A i \in 1..Len(stdout) :
                 stdout[i].kind = "translation" => stdout[i].cols[2] \in all_names
           /\ \A n \in all_names :
                 /\ Cardinality(TableLines(n)) = 1
                 /\ \A i \in TableLines(n) :
                       /\ stdout[i].cols[4] = <<"???">> <=> n \notin exact \cup fuzzy
                       /\ Head(stdout[i].cols[1]) = "Fuzzy:" <=> n \in fuzzy
                       /\ stdout[i].cols[1] = <<"Exact:1.0">> => n \in exact

InfoRows(numeral) ==
    UNION {{<<i, j>> : j \in {k \in 1..Len(files[i].content) :
                                files[i].content[k][1] = numeral}} :
             i \in {h \in 1..Len(files) : files[h].kind = "info"}}

NotFoundLines(numeral) == {i \in 1..Len(stderr) : stderr[i].taxid = numeral}

AfterInfoList ==
    pc \in {"taxonomy", "select_species", "collapse", "rename_leaves",
            "write_taxids", "reftree", "done"}

\* C9: with -l and taxid input, every taxid of the merge-translated target set
\* has one row in <list>.info.txt and no NOT FOUND line when the store's
\* id-to-name translator returns it, and no row and one NOT FOUND line when it
\* does not; every row and every NOT FOUND line is for a taxid of that set.
C9_TaxidsAccounted ==
    (AfterInfoList /\ args.info_list # None /\ TaxidModes # {}) =>
        LET targets == {IntToStr(v.i) : v \in all_taxids.items}
            known == {IntToStr(k) :
                        k \in DOMAIN get_taxid_translator(all_taxids.items)}
        IN /\ all_taxids.is_set
           /\ Cardinality(FilesNamed(args.info_list[1] \o <<".info.txt">>)) = 1
           /\ \A n \in targets :
                 IF n \in known
                   THEN Cardinality(InfoRows(n)) = 1 /\ NotFoundLines(n) = {}
                   ELSE InfoRows(n) = {} /\ Cardinality(NotFoundLines(n)) = 1
           /\ \A i \in 1..Len(files) :
                 files[i].kind = "info" =>
                    \A j \in 1..Len(files[i].content) :
                       files[i].content[j][1] \in targets
           /\ \A i \in 1..Len(stderr) : stderr[i].taxid \in targets

C9_Witness ==
    /\ pc = "taxonomy"
    /\ args.info_list # None
    /\ DOMAIN merge_conversion # {}
    /\ \E i \in 1..Len(files) : files[i].kind = "info" /\ Len(files[i].content) > 1
    /\ stderr # <<>>

\* the content of the tree file written with the given suffix
TreeFile(suffix) ==
    files[CHOOSE i \in FilesNamed(args.taxonomy[1] \o suffix) : TRUE].content

FileOrder ==
    [i \in 1..Len(files) |-> files[i].outfile]

\* C10: the three name files are written before the leaves are renamed, every
\* node in them named sciname{taxid}; the two taxid files are written after
\* them, every node, leaf or internal, named by its taxid alone.
C10_TreeFilesOrder ==
    (pc = "reftree" /\ CallsOf("get_topology") # <<>>) =>
        /\ \E k \in 0..Len(files) :
              SubSeq(FileOrder, k + 1, Len(files)) =
                 [i \in 1..5 |->
                    args.taxonomy[1] \o
                    << <<".names.nw">>, <<".allnames.nw">>,
                       <<".full_annotation.nw">>, <<".taxids.nw">>,
                       <<".alltaxids.nw">> >>[i]]
        /\ \A suffix \in {<<".names.nw">>, <<".allnames.nw">>,
                          <<".full_annotation.nw">>} :
              \A n \in DOMAIN TreeFile(suffix).names :
                 TreeFile(suffix).names[n] =
                    t.sci_name[n] \o <<"{">> \o t.taxid[n] \o <<"}">>
        /\ DOMAIN TreeFile(<<".alltaxids.nw">>).names = t.nodes
        /\ \A suffix \in {<<".taxids.nw">>, <<".alltaxids.nw">>} :
              \A n \in DOMAIN TreeFile(suffix).names :
                 TreeFile(suffix).names[n] = t.taxid[n]

====
